---- MODULE Spec2Model ----
(***************************************************************************)
(* Model of the diagnostic core of catt-lsp                                *)
(* (server/src/methods/textDocument/diagnostic: tokenize, validateSyntax). *)
(*                                                                         *)
(* Two specifications share the variables:                                 *)
(*   LexSpec  tokenize(content): the call, one action per branch of its    *)
(*            main loop, and the return;                                   *)
(*   Spec     validateSyntax(tokens): the call, one action per dispatch    *)
(*            branch of its main loop, and Finish for the end-of-pass      *)
(*            forEach and the return.                                      *)
(* A third specification models the transport of server/src/server.ts:     *)
(*   FrameSpec  the stdin "data" handler: the client's stream arrives in   *)
(*            chunks of any size and each call of the handler runs its     *)
(*            framing loop to the end.                                     *)
(* Indices are zero-based as in the source: T(i) is tokens[i].             *)
(***************************************************************************)
EXTENDS Integers, Sequences, FiniteSets, TLC

VARIABLES
    content,            \* tokenize: the input, a sequence of one-character strings
    line,               \* tokenize: let line
    character,          \* tokenize: let character
    pieces,             \* history: what each lexer iteration consumed, in order
    iterations,         \* history: iterations of the running main loop so far
    tokens,             \* tokenize: const tokens / validateSyntax: its parameter
    current,            \* let current (of the function that is running)
    diagnostics,        \* validateSyntax: const diagnostics
    declaredVariables,  \* validateSyntax: const declaredVariables
    blockStack,         \* validateSyntax: const blockStack
    pc,                 \* "idle" | "tokenize" | "tokenized" | "validate" | "done"
                        \* | "TypeError" (a property of undefined was read)
                        \* | "listening" | "SyntaxError" (JSON.parse threw)
    stream,             \* server: the characters the client writes to stdin
    messages,           \* history: the bodies of the messages in stream, in order
    delivered,          \* history: how many characters of stream have arrived
    buffer,             \* server: let buffer
    handled             \* history: every rawMessage that was parsed and dispatched

vars == <<content, line, character, pieces, iterations, tokens, current,
          diagnostics, declaredVariables, blockStack, pc,
          stream, messages, delivered, buffer, handled>>

framevars == <<stream, messages, delivered, buffer, handled>>

lexvars == <<content, line, character, pieces>>

(***************************************************************************)
(* Bounds of the model.                                                    *)
(***************************************************************************)
MaxLen == 3        \* validator inputs: every token sequence up to this length
MaxFrags == 3      \* validator inputs: every sequence of up to this many fragments
MaxChars == 4      \* lexer inputs: every string up to this length
MaxMessages == 2   \* server inputs: every stream of up to this many messages

(***************************************************************************)
(* Tokens.                                                                 *)
(***************************************************************************)
DiagnosticSeverityError == 1

Tok(t, v) == [type |-> t, value |-> v, length |-> Len(v)]

KwVar == Tok("KEYWORD", "var")
KwIf == Tok("KEYWORD", "if")
KwElse == Tok("KEYWORD", "else")
KwWhile == Tok("KEYWORD", "while")
KwMeow == Tok("KEYWORD", "meow")
KwReturn == Tok("KEYWORD", "return")
IdA == Tok("IDENTIFIER", "a")
IdY == Tok("IDENTIFIER", "y")
Num1 == Tok("NUMBER", "1")
OpEq == Tok("OPERATOR", "=")
OpSemi == Tok("OPERATOR", ";")
OpLParen == Tok("OPERATOR", "(")
OpRParen == Tok("OPERATOR", ")")
OpLBrace == Tok("OPERATOR", "{")
OpRBrace == Tok("OPERATOR", "}")
UnkDot == Tok("UNKNOWN", ".")

\* Every token sequence over Alphabet up to MaxLen is an input.
Alphabet == {KwVar, KwIf, KwElse, KwWhile, KwMeow, KwReturn, IdA,
             OpEq, OpSemi, OpLParen, OpRParen, OpLBrace, OpRBrace, UnkDot}

\* Statement-sized pieces of programs: every sequence of up to MaxFrags of them
\* is an input too, which reaches nested programs within the bounds.
FragVarA == <<KwVar, IdA, OpEq, Num1, OpSemi>>
FragVarSelf == <<KwVar, IdA, OpEq, IdA, OpSemi>>
FragIfA == <<KwIf, OpLParen, IdA, OpRParen, OpLBrace>>
FragWhileY == <<KwWhile, OpLParen, IdY, OpRParen, OpLBrace>>
FragSemiElse == <<OpSemi, KwElse, OpLBrace>>
FragElseIf == <<KwElse, KwIf, OpLParen, IdA, OpRParen, OpLBrace>>
FragElseIfBare == <<KwElse, KwIf>>
FragElseIfOpen == <<KwElse, KwIf, OpLParen, IdY>>
FragMeowY == <<KwMeow, OpLParen, IdY, OpRParen>>
FragUseY == <<IdY, OpSemi>>
FragUseA == <<IdA, OpSemi>>
FragSemiClose == <<OpSemi, OpRBrace>>
FragVarHead == <<KwVar, IdA, OpEq>>
FragSemiOpen == <<OpSemi, OpLBrace>>

Fragments == {FragVarA, FragVarSelf, FragIfA, FragWhileY, FragSemiElse, FragElseIf,
              FragElseIfBare, FragMeowY, FragUseY, FragUseA,
              FragElseIfOpen, FragSemiClose, FragVarHead,
              FragSemiOpen, <<OpRBrace>>, <<OpSemi>>, <<UnkDot>>}

SeqsUpTo(S, n) == UNION {[1..k -> S] : k \in 0..n}

RECURSIVE Concat(_)
Concat(ss) == IF ss = <<>> THEN <<>> ELSE Head(ss) \o Concat(Tail(ss))

\* The character offset of the i-th token (one-based i) when the tokens are
\* written on one line separated by single spaces: the text tokenize reads
\* back as exactly these tokens.
RECURSIVE LayoutFrom(_, _)
LayoutFrom(s, offset) ==
    IF s = <<>> THEN <<>>
    ELSE <<[type |-> Head(s).type, value |-> Head(s).value,
            position |-> [line |-> 0, character |-> offset],
            length |-> Head(s).length]>>
         \o LayoutFrom(Tail(s), offset + Head(s).length + 1)

Layout(s) == LayoutFrom(s, 0)

(***************************************************************************)
(* tokenize                                                                *)
(***************************************************************************)
keywords == {"var", "return", "if", "else", "while", "for", "function",
             "true", "false", "null", "meow", "meowln"}

operators == {"+", "-", "*", "/", "%", "==", "!=", "<", ">", "&&", "||",
              "!", "=", "[", "]", "(", ")", "}", "{", ";"}

\* /\s/
Whitespace == {" ", "\t", "\n", "\r"}
\* /[0-9]/
Digits == {"0", "1", "2", "3", "4", "5", "6", "7", "8", "9"}
\* /[a-zA-Z_]/
IdentifierStart ==
    {"a", "b", "c", "d", "e", "f", "g", "h", "i", "j", "k", "l", "m",
     "n", "o", "p", "q", "r", "s", "t", "u", "v", "w", "x", "y", "z",
     "A", "B", "C", "D", "E", "F", "G", "H", "I", "J", "K", "L", "M",
     "N", "O", "P", "Q", "R", "S", "T", "U", "V", "W", "X", "Y", "Z", "_"}
\* /[a-zA-Z0-9_]/
IdentifierPart == IdentifierStart \cup Digits

\* The characters the lexer inputs are made of.
Chars == {" ", "\n", "1", "i", "f", "\"", "=", "!", "&", "."}

ContentLength == Len(content)
\* content[i]
CharAt(i) == content[i + 1]

\* the string made of the characters of a sequence
RECURSIVE Str(_)
Str(cs) == IF cs = <<>> THEN "" ELSE Head(cs) \o Str(Tail(cs))

\* while (current < content.length && /class/.test(content[current])) current++
RECURSIVE RunEnd(_, _)
RunEnd(c, class) ==
    IF c < ContentLength /\ CharAt(c) \in class THEN RunEnd(c + 1, class) ELSE c

\* content[from .. to-1] as a string
Slice(from, to) == Str(SubSeq(content, from + 1, to))

\* while (current < content.length && content[current] !== '"') current++
RECURSIVE StringBodyEnd(_)
StringBodyEnd(c) ==
    IF c < ContentLength /\ CharAt(c) # "\"" THEN StringBodyEnd(c + 1) ELSE c

\* where a string literal that opens at c ends: after its closing quote, if any
StringEnd(c) ==
    LET e == StringBodyEnd(c + 1)
    IN IF e < ContentLength /\ CharAt(e) = "\"" THEN e + 1 ELSE e

\* value of a string literal that opens at c: the quote, the body, and the
\* closing quote when there is one
StringValue(c) ==
    LET e == StringBodyEnd(c + 1)
    IN "\"" \o Slice(c + 1, e)
       \o (IF e < ContentLength /\ CharAt(e) = "\"" THEN "\"" ELSE "")

\* operators.has(char + nextChar), when there is a next character
IsTwoCharOperator(c) ==
    IF c + 1 < ContentLength
    THEN (CharAt(c) \o CharAt(c + 1)) \in operators
    ELSE FALSE

OperatorValueFirstCharOnly(c) == CharAt(c)

\* let value = char; ... value += nextChar
OperatorValue(c) ==
    IF IsTwoCharOperator(c) THEN CharAt(c) \o CharAt(c + 1) ELSE CharAt(c)

OperatorAdvanceNoFinalStep(c) == IF IsTwoCharOperator(c) THEN 1 ELSE 0

\* current++ (and character++) once more for a two-character operator
OperatorAdvance(c) == IF IsTwoCharOperator(c) THEN 2 ELSE 1

Token(type, value, l, ch) ==
    [type |-> type, value |-> value,
     position |-> [line |-> l, character |-> ch],
     length |-> Len(value)]

LexLoop == pc = "tokenize" /\ current < ContentLength

valvars == <<diagnostics, declaredVariables, blockStack>>

SkipWhitespaceKeepColumn(char, l, ch) ==
    IF char = "\n"
    THEN [line |-> l + 1, character |-> ch + 1]
    ELSE [line |-> l, character |-> ch + 1]

\* if (char === "\n") { line++; character = 0; } else { character++; }
SkipWhitespace(char, l, ch) ==
    IF char = "\n"
    THEN [line |-> l + 1, character |-> 0]
    ELSE [line |-> l, character |-> ch + 1]

\* if (/\s/.test(char)) { ... continue; }
LexWhitespace ==
    /\ LexLoop
    /\ CharAt(current) \in Whitespace
    /\ line' = SkipWhitespace(CharAt(current), line, character).line
    /\ character' = SkipWhitespace(CharAt(current), line, character).character
    /\ current' = current + 1
    /\ pieces' = Append(pieces, CharAt(current))
    /\ UNCHANGED <<content, tokens, valvars, pc>>
    /\ iterations' = iterations + 1
    /\ UNCHANGED framevars

\* if (/[0-9]/.test(char)) { ... continue; }
LexNumber ==
    /\ LexLoop
    /\ CharAt(current) \notin Whitespace
    /\ CharAt(current) \in Digits
    /\ LET e == RunEnd(current, Digits)
           value == Slice(current, e)
       IN /\ tokens' = Append(tokens, Token("NUMBER", value, line, character))
          /\ pieces' = Append(pieces, value)
          /\ current' = e
          /\ character' = character + (e - current)
    /\ UNCHANGED <<content, line, valvars, pc>>
    /\ iterations' = iterations + 1
    /\ UNCHANGED framevars

\* if (/[a-zA-Z_]/.test(char)) { ... continue; }
LexIdentifier ==
    /\ LexLoop
    /\ CharAt(current) \notin Whitespace \cup Digits
    /\ CharAt(current) \in IdentifierStart
    /\ LET e == RunEnd(current, IdentifierPart)
           value == Slice(current, e)
           type == IF value \in keywords THEN "KEYWORD" ELSE "IDENTIFIER"
       IN /\ tokens' = Append(tokens, Token(type, value, line, character))
          /\ pieces' = Append(pieces, value)
          /\ current' = e
          /\ character' = character + (e - current)
    /\ UNCHANGED <<content, line, valvars, pc>>
    /\ iterations' = iterations + 1
    /\ UNCHANGED framevars

\* if (char === '"') { ... continue; }
LexString ==
    /\ LexLoop
    /\ CharAt(current) \notin Whitespace \cup Digits \cup IdentifierStart
    /\ CharAt(current) = "\""
    /\ LET e == StringEnd(current)
           value == StringValue(current)
       IN /\ tokens' = Append(tokens, Token("STRING", value, line, character))
          /\ pieces' = Append(pieces, value)
          /\ current' = e
          /\ character' = character + (e - current)
    /\ UNCHANGED <<content, line, valvars, pc>>
    /\ iterations' = iterations + 1
    /\ UNCHANGED framevars

\* if (operators.has(char)) { ... continue; }
LexOperator ==
    /\ LexLoop
    /\ CharAt(current) \notin Whitespace \cup Digits \cup IdentifierStart
    /\ CharAt(current) # "\""
    /\ CharAt(current) \in operators
    /\ LET value == OperatorValue(current)
       IN /\ tokens' = Append(tokens, Token("OPERATOR", value, line, character))
          /\ pieces' = Append(pieces, value)
          /\ current' = current + OperatorAdvance(current)
          /\ character' = character + OperatorAdvance(current)
    /\ UNCHANGED <<content, line, valvars, pc>>
    /\ iterations' = iterations + 1
    /\ UNCHANGED framevars

\* tokens.push({ type: "UNKNOWN", ... }); current++; character++;
LexUnknown ==
    /\ LexLoop
    /\ CharAt(current) \notin Whitespace \cup Digits \cup IdentifierStart
    /\ CharAt(current) # "\""
    /\ CharAt(current) \notin operators
    /\ tokens' = Append(tokens, Token("UNKNOWN", CharAt(current), line, character))
    /\ pieces' = Append(pieces, CharAt(current))
    /\ current' = current + 1
    /\ character' = character + 1
    /\ UNCHANGED <<content, line, valvars, pc>>
    /\ iterations' = iterations + 1
    /\ UNCHANGED framevars

\* the loop ends; return tokens
LexReturn ==
    /\ pc = "tokenize"
    /\ ~(current < ContentLength)
    /\ pc' = "tokenized"
    /\ UNCHANGED <<content, line, character, pieces, tokens, current, valvars>>
    /\ UNCHANGED iterations
    /\ UNCHANGED framevars

\* before a request: nothing is running
Idle ==
    /\ content = <<>>
    /\ line = 0
    /\ character = 0
    /\ pieces = <<>>
    /\ iterations = 0
    /\ tokens = <<>>
    /\ current = 0
    /\ diagnostics = <<>>
    /\ declaredVariables = {}
    /\ blockStack = <<>>
    /\ pc = "idle"
    /\ stream = <<>>
    /\ messages = <<>>
    /\ delivered = 0
    /\ buffer = <<>>
    /\ handled = <<>>

LexInit == Idle

\* tokenize(content) is called: const tokens = [], current = line = character = 0
LexCall ==
    /\ pc = "idle"
    /\ \E k \in 0..MaxChars : \E cs \in [1..k -> Chars] : content' = cs
    /\ pc' = "tokenize"
    /\ UNCHANGED <<line, character, pieces, tokens, current, valvars>>
    /\ UNCHANGED iterations
    /\ UNCHANGED framevars

LexNext ==
    \/ LexCall
    \/ LexWhitespace
    \/ LexNumber
    \/ LexIdentifier
    \/ LexString
    \/ LexOperator
    \/ LexUnknown
    \/ LexReturn

LexSpec == LexInit /\ [][LexNext]_vars

(***************************************************************************)
(* validateSyntax                                                          *)
(***************************************************************************)
N == Len(tokens)
T(i) == tokens[i + 1]

\* i >= tokens.length || tokens[i].type !== t
TypeIsNot(i, t) == IF i >= N THEN TRUE ELSE T(i).type # t
\* i >= tokens.length || tokens[i].value !== v
ValueIsNot(i, v) == IF i >= N THEN TRUE ELSE T(i).value # v
\* i < tokens.length && tokens[i].value === v
ValueIs(i, v) == IF i < N THEN T(i).value = v ELSE FALSE

\* tokens[i] is a token only for an index in range; it is undefined otherwise,
\* and reading a property of undefined throws a TypeError.
Defined(i) == 0 <= i /\ i < N

LookBehindNone(c) == c

\* tokens[current - 1]: the token the cursor has just passed
LookBehind(c) == c - 1

createDiagnostic(start, end, message, severity) ==
    [range |-> [start |-> start, end |-> end],
     source |-> "Catt LSP",
     severity |-> severity,
     message |-> message]

createErrorEmptyRange(token, message) ==
    createDiagnostic(token.position, token.position,
                     message, DiagnosticSeverityError)

createError(token, message) ==
    createDiagnostic(token.position,
                     [line |-> token.position.line,
                      character |-> token.position.character + token.length],
                     message, DiagnosticSeverityError)

AfterDispatchNoStep(c) == c

\* The trailing current++ that ends every iteration that leaves the dispatch
\* by break or by falling through.
AfterDispatch(c) == c + 1

RECURSIVE SkipParensNoClose(_, _)
SkipParensNoClose(c, parenCount) ==
    IF c < N /\ parenCount > 0
    THEN SkipParensNoClose(c + 1,
                           parenCount + (IF T(c).value = "(" THEN 1 ELSE 0))
    ELSE [current |-> c, parenCount |-> parenCount]

\* while (current < tokens.length && parenCount > 0) { ... current++ }
RECURSIVE SkipParens(_, _)
SkipParens(c, parenCount) ==
    IF c < N /\ parenCount > 0
    THEN SkipParens(c + 1,
                    parenCount
                    + (IF T(c).value = "(" THEN 1 ELSE 0)
                    - (IF T(c).value = ")" THEN 1 ELSE 0))
    ELSE [current |-> c, parenCount |-> parenCount]

hasNever(dv, name) == FALSE

\* declaredVariables.has(name)
has(dv, name) == name \in dv

DeclareNotYet(dv, name) == dv

\* declaredVariables.add(tokens[current + 1].value), before the initializer scan
DeclareBeforeScan(dv, name) == dv \cup {name}

RECURSIVE ScanInitializerOncePerName(_, _, _)
ScanInitializerOncePerName(c, dv, diags) ==
    IF c < N /\ T(c).value # ";"
    THEN IF T(c).type = "IDENTIFIER" /\ ~has(dv, T(c).value)
         THEN ScanInitializerOncePerName(
                 c + 1, dv \cup {T(c).value},
                 Append(diags,
                        createError(T(c), "Undefined variable \"" \o T(c).value
                                          \o "\" in initialization")))
         ELSE ScanInitializerOncePerName(c + 1, dv, diags)
    ELSE [current |-> c, diagnostics |-> diags]

\* while (current < tokens.length && tokens[current].value !== ";") { ... }
RECURSIVE ScanInitializer(_, _, _)
ScanInitializer(c, dv, diags) ==
    IF c < N /\ T(c).value # ";"
    THEN ScanInitializer(
            c + 1, dv,
            IF T(c).type = "IDENTIFIER" /\ ~has(dv, T(c).value)
            THEN Append(diags,
                        createError(T(c), "Undefined variable \"" \o T(c).value
                                          \o "\" in initialization"))
            ELSE diags)
    ELSE [current |-> c, diagnostics |-> diags]

HasMatchingIfEvery(stack) == \A i \in 1..Len(stack) : stack[i].isIf

\* blockStack.some((block) => block.isIf)
HasMatchingIf(stack) == \E i \in 1..Len(stack) : stack[i].isIf

\* The block pushed when a control statement's body opens.
IfBlock(token, c) ==
    [isIf |-> TRUE, startToken |-> token, startIndex |-> c, braceCount |-> 1]

ElseBlock(token, c) ==
    [isIf |-> FALSE, startToken |-> token, startIndex |-> c, braceCount |-> 1]

AtLoopHead == pc = "validate" /\ current < N

IsBrace == T(current).value \in {"}", "{"}
Dispatched(kw) ==
    /\ AtLoopHead
    /\ ~IsBrace
    /\ T(current).type = "KEYWORD"
    /\ T(current).value \in kw

CloseOnNeverPops(stack) ==
    IF Len(stack) > 0
    THEN [stack EXCEPT ![Len(stack)].braceCount = @ - 1]
    ELSE stack

\* if (blockStack.length > 0) { currentBlock.braceCount--;
\*                              if (currentBlock.braceCount === 0) blockStack.pop(); }
CloseOn(stack) ==
    IF Len(stack) > 0
    THEN LET top == stack[Len(stack)]
         IN IF top.braceCount - 1 = 0
            THEN SubSeq(stack, 1, Len(stack) - 1)
            ELSE [stack EXCEPT ![Len(stack)].braceCount = @ - 1]
    ELSE stack

\* if (blockStack.length > 0 && top.startIndex !== current) top.braceCount++;
OpenOn(stack, c) ==
    IF Len(stack) > 0 /\ stack[Len(stack)].startIndex # c
    THEN [stack EXCEPT ![Len(stack)].braceCount = @ + 1]
    ELSE stack

\* if (token.value === "}") { ... current++; continue; }
CloseBrace ==
    /\ AtLoopHead
    /\ T(current).value = "}"
    /\ blockStack' = CloseOn(blockStack)
    /\ current' = current + 1
    /\ UNCHANGED <<lexvars, tokens, diagnostics, declaredVariables, pc>>
    /\ iterations' = iterations + 1
    /\ UNCHANGED framevars

\* if (token.value === "{") { ... current++; continue; }
OpenBrace ==
    /\ AtLoopHead
    /\ T(current).value = "{"
    /\ blockStack' = OpenOn(blockStack, current)
    /\ current' = current + 1
    /\ UNCHANGED <<lexvars, tokens, diagnostics, declaredVariables, pc>>
    /\ iterations' = iterations + 1
    /\ UNCHANGED framevars

\* if (token.type === "UNKNOWN") { ... current++; continue; }
UnknownToken ==
    /\ AtLoopHead
    /\ ~IsBrace
    /\ T(current).type = "UNKNOWN"
    /\ diagnostics' = Append(diagnostics,
          createError(T(current), "Unexpected character: " \o T(current).value))
    /\ current' = current + 1
    /\ UNCHANGED <<lexvars, tokens, declaredVariables, blockStack, pc>>
    /\ iterations' = iterations + 1
    /\ UNCHANGED framevars

\* case "var", first check fails
VarNoIdentifier ==
    /\ Dispatched({"var"})
    /\ TypeIsNot(current + 1, "IDENTIFIER")
    /\ diagnostics' = Append(diagnostics,
          createError(T(current), "var keyword must be followed by an identifier"))
    /\ current' = current + 1
    /\ UNCHANGED <<lexvars, tokens, declaredVariables, blockStack, pc>>
    /\ iterations' = iterations + 1
    /\ UNCHANGED framevars

\* case "var", second check fails
VarNoInitialization ==
    /\ Dispatched({"var"})
    /\ ~TypeIsNot(current + 1, "IDENTIFIER")
    /\ ValueIsNot(current + 2, "=")
    /\ diagnostics' = Append(diagnostics,
          createError(T(current + 1),
                      "var declaration requires initialization with '='"))
    /\ current' = current + 2
    /\ UNCHANGED <<lexvars, tokens, declaredVariables, blockStack, pc>>
    /\ iterations' = iterations + 1
    /\ UNCHANGED framevars

\* case "var", the declaration and its initializer
VarDeclaration ==
    /\ Dispatched({"var"})
    /\ ~TypeIsNot(current + 1, "IDENTIFIER")
    /\ ~ValueIsNot(current + 2, "=")
    /\ LET dv == DeclareBeforeScan(declaredVariables, T(current + 1).value)
           scan == ScanInitializer(current + 3, dv, diagnostics)
       IN /\ declaredVariables' = dv
          /\ IF ValueIsNot(scan.current, ";")
             THEN IF Defined(LookBehind(scan.current))
                  THEN /\ diagnostics' = Append(scan.diagnostics,
                             createError(T(LookBehind(scan.current)),
                                         "var declaration must end with semicolon"))
                       /\ current' = scan.current
                       /\ pc' = pc
                  ELSE /\ diagnostics' = scan.diagnostics
                       /\ current' = scan.current
                       /\ pc' = "TypeError"
             ELSE /\ diagnostics' = scan.diagnostics
                  /\ current' = scan.current + 1
                  /\ pc' = pc
    /\ UNCHANGED <<lexvars, tokens, blockStack>>
    /\ iterations' = iterations + 1
    /\ UNCHANGED framevars

\* case "meow" / "meowln", no "(" follows
MeowInvalid ==
    /\ Dispatched({"meow", "meowln"})
    /\ ValueIsNot(current + 1, "(")
    /\ diagnostics' = Append(diagnostics,
          createError(T(current),
                      "Invalid " \o T(current).value \o " call. Expected \"(\" after \""
                      \o T(current).value \o "\""))
    /\ current' = current + 1
    /\ UNCHANGED <<lexvars, tokens, declaredVariables, blockStack, pc>>
    /\ iterations' = iterations + 1
    /\ UNCHANGED framevars

\* case "meow" / "meowln", the call
MeowCall ==
    /\ Dispatched({"meow", "meowln"})
    /\ ~ValueIsNot(current + 1, "(")
    /\ LET skip == SkipParens(current + 2, 1)
       IN /\ diagnostics' =
               IF skip.parenCount > 0
               THEN Append(diagnostics,
                      createError(T(current),
                        "Unclosed parenthesis in " \o T(current).value \o " call"))
               ELSE diagnostics
          /\ current' = AfterDispatch(skip.current)
    /\ UNCHANGED <<lexvars, tokens, declaredVariables, blockStack, pc>>
    /\ iterations' = iterations + 1
    /\ UNCHANGED framevars

\* case "for" / "while" / "if", no "(" follows
IfInvalid ==
    /\ Dispatched({"for", "while", "if"})
    /\ ValueIsNot(current + 1, "(")
    /\ diagnostics' = Append(diagnostics,
          createError(T(current),
                      "Invalid " \o T(current).value
                      \o " statement. Expected \"(\" after \"if\""))
    /\ current' = current + 1
    /\ UNCHANGED <<lexvars, tokens, declaredVariables, blockStack, pc>>
    /\ iterations' = iterations + 1
    /\ UNCHANGED framevars

\* case "for" / "while" / "if", the condition never closes
IfUnclosed ==
    /\ Dispatched({"for", "while", "if"})
    /\ ~ValueIsNot(current + 1, "(")
    /\ LET skip == SkipParens(current + 2, 1)
       IN /\ skip.parenCount > 0
          /\ diagnostics' = Append(diagnostics,
                createError(T(current),
                  "Unclosed parenthesis in " \o T(current).value \o " condition"))
          /\ current' = skip.current
    /\ UNCHANGED <<lexvars, tokens, declaredVariables, blockStack, pc>>
    /\ iterations' = iterations + 1
    /\ UNCHANGED framevars

\* case "for" / "while" / "if", after a closed condition
IfStatement ==
    /\ Dispatched({"for", "while", "if"})
    /\ ~ValueIsNot(current + 1, "(")
    /\ LET skip == SkipParens(current + 2, 1)
           c == skip.current
       IN /\ ~(skip.parenCount > 0)
          /\ IF ValueIs(c, "{")
             THEN /\ blockStack' = Append(blockStack, IfBlock(T(current), c))
                  /\ diagnostics' = diagnostics
                  /\ current' = AfterDispatch(c + 1)
             ELSE /\ blockStack' = blockStack
                  /\ diagnostics' = Append(diagnostics,
                        createError(IF c < N THEN T(c) ELSE T(current),
                          "Expected block starting with \"{\" for "
                          \o T(current).value \o " statement"))
                  /\ current' = AfterDispatch(c)
    /\ UNCHANGED <<lexvars, tokens, declaredVariables, pc>>
    /\ iterations' = iterations + 1
    /\ UNCHANGED framevars

\* case "else", no block on the stack has isIf
ElseWithoutIf ==
    /\ Dispatched({"else"})
    /\ ~HasMatchingIf(blockStack)
    /\ diagnostics' = Append(diagnostics,
          createError(T(current), "else statement without preceding if statement"))
    /\ current' = current + 1
    /\ UNCHANGED <<lexvars, tokens, declaredVariables, blockStack, pc>>
    /\ iterations' = iterations + 1
    /\ UNCHANGED framevars

\* case "else", "else if" with no "(" after the if
ElseIfInvalid ==
    /\ Dispatched({"else"})
    /\ HasMatchingIf(blockStack)
    /\ ValueIs(current + 1, "if")
    /\ ValueIsNot(current + 2, "(")
    /\ IF Defined(LookBehind(current + 2))
       THEN /\ diagnostics' = Append(diagnostics,
                  createError(T(LookBehind(current + 2)),
                      "Invalid else if statement. Expected \"(\" after \"if\""))
            /\ pc' = pc
       ELSE /\ diagnostics' = diagnostics
            /\ pc' = "TypeError"
    /\ current' = current + 2
    /\ UNCHANGED <<lexvars, tokens, declaredVariables, blockStack>>
    /\ iterations' = iterations + 1
    /\ UNCHANGED framevars

\* case "else", "else if (" whose condition never closes
ElseIfUnclosed ==
    /\ Dispatched({"else"})
    /\ HasMatchingIf(blockStack)
    /\ ValueIs(current + 1, "if")
    /\ ~ValueIsNot(current + 2, "(")
    /\ LET skip == SkipParens(current + 3, 1)
       IN /\ skip.parenCount > 0
          /\ IF Defined(LookBehind(skip.current))
             THEN /\ diagnostics' = Append(diagnostics,
                        createError(T(LookBehind(skip.current)),
                                    "Unclosed parenthesis in else if condition"))
                  /\ pc' = pc
             ELSE /\ diagnostics' = diagnostics
                  /\ pc' = "TypeError"
          /\ current' = skip.current
    /\ UNCHANGED <<lexvars, tokens, declaredVariables, blockStack>>
    /\ iterations' = iterations + 1
    /\ UNCHANGED framevars

\* case "else", the block check (after "else" or after "else if (...)")
ElseStatement ==
    /\ Dispatched({"else"})
    /\ HasMatchingIf(blockStack)
    /\ LET isElseIf == ValueIs(current + 1, "if")
           skip == IF isElseIf
                   THEN SkipParens(current + 3, 1)
                   ELSE [current |-> current + 1, parenCount |-> 0]
           c == skip.current
       IN /\ isElseIf => ~ValueIsNot(current + 2, "(")
          /\ ~(skip.parenCount > 0)
          /\ IF ValueIs(c, "{")
             THEN /\ blockStack' = Append(blockStack, ElseBlock(T(current), c))
                  /\ diagnostics' = diagnostics
                  /\ current' = AfterDispatch(c + 1)
             ELSE /\ blockStack' = blockStack
                  /\ diagnostics' = Append(diagnostics,
                        createError(IF c < N THEN T(c) ELSE T(current),
                          "Expected block starting with \"{\" for else statement"))
                  /\ current' = AfterDispatch(c)
    /\ UNCHANGED <<lexvars, tokens, declaredVariables, pc>>
    /\ iterations' = iterations + 1
    /\ UNCHANGED framevars

SwitchCases == {"var", "meow", "meowln", "for", "while", "if", "else"}

\* a keyword the switch has no case for
OtherKeyword ==
    /\ AtLoopHead
    /\ ~IsBrace
    /\ T(current).type = "KEYWORD"
    /\ T(current).value \notin SwitchCases
    /\ current' = AfterDispatch(current)
    /\ UNCHANGED <<lexvars, tokens, diagnostics, declaredVariables, blockStack, pc>>
    /\ iterations' = iterations + 1
    /\ UNCHANGED framevars

\* else if (token.type === "IDENTIFIER" && !declaredVariables.has(token.value))
UndefinedIdentifier ==
    /\ AtLoopHead
    /\ ~IsBrace
    /\ T(current).type = "IDENTIFIER"
    /\ ~has(declaredVariables, T(current).value)
    /\ diagnostics' = Append(diagnostics,
          createError(T(current),
                      "Undefined variable \"" \o T(current).value \o "\""))
    /\ current' = AfterDispatch(current)
    /\ UNCHANGED <<lexvars, tokens, declaredVariables, blockStack, pc>>
    /\ iterations' = iterations + 1
    /\ UNCHANGED framevars

\* any other token: no branch matches
OtherToken ==
    /\ AtLoopHead
    /\ ~IsBrace
    /\ T(current).type \notin {"UNKNOWN", "KEYWORD"}
    /\ ~(T(current).type = "IDENTIFIER" /\ ~has(declaredVariables, T(current).value))
    /\ current' = AfterDispatch(current)
    /\ UNCHANGED <<lexvars, tokens, diagnostics, declaredVariables, blockStack, pc>>
    /\ iterations' = iterations + 1
    /\ UNCHANGED framevars

UnclosedBlocksTopOnly(stack, diags) ==
    IF stack = <<>> THEN diags
    ELSE Append(diags,
           createError(stack[Len(stack)].startToken,
             "Unclosed block starting at position "
             \o ToString(stack[Len(stack)].startIndex)))

\* blockStack.forEach(...) after the loop
RECURSIVE UnclosedBlocks(_, _)
UnclosedBlocks(stack, diags) ==
    IF stack = <<>> THEN diags
    ELSE UnclosedBlocks(
            Tail(stack),
            IF Head(stack).braceCount > 0
            THEN Append(diags,
                   createError(Head(stack).startToken,
                     "Unclosed block starting at position "
                     \o ToString(Head(stack).startIndex)))
            ELSE diags)

\* the loop ends; the end-of-pass report; return diagnostics
Finish ==
    /\ pc = "validate"
    /\ ~(current < N)
    /\ diagnostics' = UnclosedBlocks(blockStack, diagnostics)
    /\ pc' = "done"
    /\ UNCHANGED <<lexvars, tokens, current, declaredVariables, blockStack>>
    /\ UNCHANGED iterations
    /\ UNCHANGED framevars

Init == Idle

\* validateSyntax(tokens) is called: diagnostics = [], declaredVariables and
\* blockStack empty, current = 0
CallWithTokens ==
    /\ pc = "idle"
    /\ \E k \in 0..MaxLen : \E s \in [1..k -> Alphabet] : tokens' = Layout(s)
    /\ pc' = "validate"
    /\ UNCHANGED <<lexvars, current, valvars>>
    /\ UNCHANGED iterations
    /\ UNCHANGED framevars

\* the same call, on a program made of statement-sized fragments
CallWithProgram ==
    /\ pc = "idle"
    /\ \E k \in 0..MaxFrags : \E fs \in [1..k -> Fragments] :
          tokens' = Layout(Concat(fs))
    /\ pc' = "validate"
    /\ UNCHANGED <<lexvars, current, valvars>>
    /\ UNCHANGED iterations
    /\ UNCHANGED framevars

Next ==
    \/ CallWithTokens
    \/ CallWithProgram
    \/ CloseBrace
    \/ OpenBrace
    \/ UnknownToken
    \/ VarNoIdentifier
    \/ VarNoInitialization
    \/ VarDeclaration
    \/ MeowInvalid
    \/ MeowCall
    \/ IfInvalid
    \/ IfUnclosed
    \/ IfStatement
    \/ ElseWithoutIf
    \/ ElseIfInvalid
    \/ ElseIfUnclosed
    \/ ElseStatement
    \/ OtherKeyword
    \/ UndefinedIdentifier
    \/ OtherToken
    \/ Finish

Spec == Init /\ [][Next]_vars

(***************************************************************************)
(* Properties of tokenize (checked under LexSpec).                         *)
(***************************************************************************)

\* C5: Lexer totality. Every iteration of the main loop of tokenize moves the
\* scan offset forward by at least one and never past the end of the input
\* (so there are at most content.length iterations), and at the end of the
\* input tokenize returns the tokens it has.
LexerTotality ==
    [][pc = "tokenize" =>
          IF current < ContentLength
          THEN /\ iterations' = iterations + 1
               /\ current' > current
               /\ current' <= ContentLength
               /\ pc' = "tokenize"
          ELSE pc' = "tokenized" /\ tokens' = tokens]_vars

\* tokenize has returned on an unterminated string literal
LexerTotalityWitness ==
    /\ pc = "tokenized"
    /\ content = <<"\"", "i", " ">>
    /\ Len(tokens) = 1
    /\ tokens[1].type = "STRING"
    /\ tokens[1].value = "\"i "

\* C6: Lexer coverage. What the loop has consumed so far, token values and
\* skipped whitespace in order, is exactly the input up to the scan offset;
\* the token values are the consumed pieces that are not skipped whitespace;
\* and tokenize returns only with the whole input consumed.
LexerCoverage ==
    /\ Str(pieces) = Slice(0, current)
    /\ SelectSeq(pieces, LAMBDA p : p \notin Whitespace)
         = [i \in 1..Len(tokens) |-> tokens[i].value]
    /\ pc = "tokenized" => current = ContentLength

\* a two-character operator, skipped whitespace and an unterminated string
LexerCoverageWitness ==
    /\ pc = "tokenized"
    /\ content = <<"=", "=", " ", "\"">>
    /\ pieces = <<"==", " ", "\"">>

TwoCharacterOperators == {"==", "!=", "&&", "||"}

\* C8: Two-character operators. When the scan is at a character pair that is
\* one of ==, !=, && and ||, the iteration pushes one OPERATOR token of length
\* 2 with that value and consumes both characters.
TwoCharacterOperatorsLexed ==
    [][(/\ pc = "tokenize"
        /\ current + 1 < ContentLength
        /\ (CharAt(current) \o CharAt(current + 1)) \in TwoCharacterOperators)
       => /\ tokens' = Append(tokens,
                          [type |-> "OPERATOR",
                           value |-> CharAt(current) \o CharAt(current + 1),
                           position |-> [line |-> line, character |-> character],
                           length |-> 2])
          /\ current' = current + 2]_vars

(***************************************************************************)
(* Properties of validateSyntax (checked under Spec).                     *)
(***************************************************************************)

\* the diagnostics the step adds
NewDiagnostics ==
    {diagnostics'[j] : j \in (Len(diagnostics) + 1)..Len(diagnostics')}

\* a diagnostic anchored at token i
AnchoredAt(d, i) == d.range.start = T(i).position

IsKeyword(i, kw) == T(i).type = "KEYWORD" /\ T(i).value \in kw

ParenKeywords == {"meow", "meowln", "if", "while", "for"}

\* Token i lies strictly between the "(" that follows the keyword at k and the
\* ")" that matches it.
InClosedParensOf(k, i) ==
    /\ k + 1 < N
    /\ IsKeyword(k, ParenKeywords)
    /\ T(k + 1).value = "("
    /\ LET skip == SkipParens(k + 2, 1)
       IN skip.parenCount = 0 /\ k + 1 < i /\ i < skip.current - 1

\* Token i lies after the "(" that follows a keyword and not after its ")".
InParens(i) ==
    \E k \in 0..(i - 2) :
        /\ IsKeyword(k, ParenKeywords)
        /\ T(k + 1).value = "("
        /\ LET skip == SkipParens(k + 2, 1)
           IN skip.parenCount > 0 \/ i < skip.current

\* Token i lies in the initializer of a var declaration: after "var IDENT ="
\* with no ";" in between.
InInitializer(i) ==
    \E k \in 0..(i - 3) :
        /\ IsKeyword(k, {"var"})
        /\ T(k + 1).type = "IDENTIFIER"
        /\ T(k + 2).value = "="
        /\ \A m \in (k + 3)..(i - 1) : T(m).value # ";"

BraceDepth(j, m) ==
    Cardinality({n \in j..m : T(n).value = "{"})
    - Cardinality({n \in j..m : T(n).value = "}"})

\* Token i lies in the body of a block: after the "{" that follows a closed
\* condition or an else, before the "}" that matches it.
InBody(i) ==
    \E j \in 1..(i - 1) :
        /\ T(j).value = "{"
        /\ T(j - 1).value \in {")", "else"}
        /\ \A m \in j..(i - 1) : BraceDepth(j, m) >= 1

\* No var declaration anywhere in the input declares the name.
NeverDeclared(name) ==
    \A k \in 0..(N - 2) : ~(IsKeyword(k, {"var"}) /\ T(k + 1).value = name)

CleanFragments == {FragVarA, FragIfA, <<OpRBrace>>}

\* Programs made of "var a = 1 ;", "if ( a ) {" and "}" only, that declare a
\* first and close every block they open.
IsCleanSequence(fs) ==
    /\ fs # <<>>
    /\ fs[1] = FragVarA
    /\ \A n \in 1..Len(fs) :
         Cardinality({m \in 1..n : fs[m] = <<OpRBrace>>})
           <= Cardinality({m \in 1..n : fs[m] = FragIfA})
    /\ Cardinality({m \in 1..Len(fs) : fs[m] = <<OpRBrace>>})
         = Cardinality({m \in 1..Len(fs) : fs[m] = FragIfA})

CleanPrograms ==
    {Layout(Concat(fs)) :
        fs \in {f \in SeqsUpTo(CleanFragments, MaxFrags) : IsCleanSequence(f)}}

\* C1: Clean-program property. A program made only of well-formed var
\* declarations and balanced control blocks that use declared names yields
\* no diagnostic.
CleanProgramNoDiagnostics ==
    (pc = "done" /\ tokens \in CleanPrograms) => diagnostics = <<>>

\* C2: Body tokens are validated. Every IDENTIFIER token in the body of a
\* block, outside any parenthesized condition or call and outside a var
\* initializer, whose name no var declaration declares, has an
\* 'Undefined variable "<name>"' diagnostic anchored at it.
BodyIdentifiersValidated ==
    pc = "done" =>
        \A i \in 0..(N - 1) :
            (/\ T(i).type = "IDENTIFIER"
             /\ NeverDeclared(T(i).value)
             /\ InBody(i)
             /\ ~InParens(i)
             /\ ~InInitializer(i)
             /\ ~(i > 0 /\ IsKeyword(i - 1, {"var"})))
            => \E j \in 1..Len(diagnostics) :
                  /\ AnchoredAt(diagnostics[j], i)
                  /\ diagnostics[j].message
                       = "Undefined variable \"" \o T(i).value \o "\""

\* C3: Parenthesis opacity. No diagnostic is anchored at a token strictly
\* between the "(" that follows a meow/meowln/if/while/for keyword and its
\* matching ")" (stated for keywords outside var initializers).
ParenthesisOpacity ==
    pc = "done" =>
        \A k \in 0..(N - 1) : \A i \in 0..(N - 1) :
            (InClosedParensOf(k, i) /\ ~InInitializer(k))
            => \A j \in 1..Len(diagnostics) : ~AnchoredAt(diagnostics[j], i)

VarHeaderAt(k) ==
    /\ k + 2 < N
    /\ IsKeyword(k, {"var"})
    /\ T(k + 1).type = "IDENTIFIER"
    /\ T(k + 2).value = "="

\* C4: Forward self-reference. The iteration that handles "var <name> = ..."
\* has <name> in declaredVariables afterwards and adds no
\* 'Undefined variable "<name>" in initialization' diagnostic; the input
\* "var a = a ;" ends with no diagnostic at all.
ForwardSelfReference ==
    [][/\ (AtLoopHead /\ VarHeaderAt(current))
          => /\ T(current + 1).value \in declaredVariables'
             /\ \A d \in NewDiagnostics :
                  d.message # "Undefined variable \"" \o T(current + 1).value
                              \o "\" in initialization"
       /\ (pc' = "done" /\ tokens = Layout(FragVarSelf))
          => diagnostics' = <<>>]_vars

\* "var a = a ;" has been validated
ForwardSelfReferenceWitness ==
    /\ pc = "done"
    /\ tokens = Layout(FragVarSelf)
    /\ declaredVariables = {"a"}
    /\ diagnostics = <<>>

\* C7: Validator termination. Every iteration of the main loop of
\* validateSyntax moves the cursor strictly forward and by no more than one
\* past the end (so there are at most tokens.length iterations), the cursor
\* never moves back, and with the cursor at or past the end validateSyntax
\* returns.
ValidatorTermination ==
    [][pc = "validate" =>
          IF current < N
          THEN /\ iterations' = iterations + 1
               /\ current' > current
               /\ current' <= N + 1
               /\ pc' = "validate"
          ELSE current' = current /\ pc' = "done"]_vars

\* a pass that took an early continue (the unclosed condition) and ended
ValidatorTerminationWitness ==
    /\ pc = "done"
    /\ current = N
    /\ \E j \in 1..Len(diagnostics) :
          diagnostics[j].message = "Unclosed parenthesis in if condition"
    /\ \E j \in 1..Len(diagnostics) :
          diagnostics[j].message = "var keyword must be followed by an identifier"

UnclosedBlockMessages ==
    {"Unclosed block starting at position " \o ToString(k) : k \in 0..N}

\* C9: Unclosed blocks. At the end of the pass there are as many
\* 'Unclosed block ...' diagnostics as blocks on the stack; each block on the
\* stack has exactly one, anchored at its keyword token and naming the index
\* of its "{"; "if ( a ) {" ends with exactly that one diagnostic.
UnclosedBlocksReported ==
    pc = "done" =>
        LET U == {j \in 1..Len(diagnostics) :
                     diagnostics[j].message \in UnclosedBlockMessages}
        IN /\ Cardinality(U) = Len(blockStack)
           /\ \A b \in 1..Len(blockStack) :
                LET block == blockStack[b]
                IN /\ T(block.startIndex).value = "{"
                   /\ \E k \in 0..(block.startIndex - 1) :
                        /\ T(k) = block.startToken
                        /\ IsKeyword(k, {"if", "while", "for", "else"})
                   /\ Cardinality(
                        {j \in U :
                           /\ diagnostics[j].range.start = block.startToken.position
                           /\ diagnostics[j].range.end =
                                [line |-> block.startToken.position.line,
                                 character |-> block.startToken.position.character
                                               + block.startToken.length]
                           /\ diagnostics[j].message =
                                "Unclosed block starting at position "
                                \o ToString(block.startIndex)}) = 1
           /\ tokens = Layout(FragIfA) =>
                /\ Len(diagnostics) = 1
                /\ diagnostics[1].message = "Unclosed block starting at position 4"
                /\ AnchoredAt(diagnostics[1], 0)

\* "if ( a ) { ; } if ( a ) {": the first block was popped, the second is
\* still open at the end of the pass and is the only one reported
UnclosedBlocksReportedWitness ==
    /\ pc = "done"
    /\ tokens = Layout(Concat(<<FragIfA, FragSemiClose, FragIfA>>))
    /\ Len(blockStack) = 1
    /\ blockStack[1].startIndex = 11
    /\ Len(diagnostics) = 1
    /\ diagnostics[1].message = "Unclosed block starting at position 11"
    /\ AnchoredAt(diagnostics[1], 7)

ElseWithoutIfDiagnostic(token) ==
    [range |-> [start |-> token.position,
                end |-> [line |-> token.position.line,
                         character |-> token.position.character + token.length]],
     source |-> "Catt LSP",
     severity |-> 1,
     message |-> "else statement without preceding if statement"]

\* C10: else binding. The iteration that dispatches an else keyword adds
\* 'else statement without preceding if statement', anchored at the else
\* token, if and only if no block on the stack, at any depth, has isIf; the
\* input "else { }" ends with exactly that one diagnostic.
ElseBinding ==
    [][/\ (AtLoopHead /\ IsKeyword(current, {"else"}))
          => (ElseWithoutIfDiagnostic(T(current)) \in NewDiagnostics
              <=> ~(\E b \in 1..Len(blockStack) : blockStack[b].isIf))
       /\ (pc' = "done" /\ tokens = Layout(<<KwElse, OpLBrace, OpRBrace>>))
          => diagnostics' = <<ElseWithoutIfDiagnostic(T(0))>>]_vars

\* an else was accepted because of an if block below the top of the stack
ElseBindingWitness ==
    /\ Len(blockStack) = 3
    /\ blockStack[1].isIf
    /\ ~blockStack[2].isIf
    /\ ~blockStack[3].isIf
    /\ blockStack[3].startToken.value = "else"
    /\ \A j \in 1..Len(diagnostics) :
          diagnostics[j].message # "else statement without preceding if statement"

(***************************************************************************)
(* Unclosed parentheses                                                    *)
(***************************************************************************)
\* the error diagnostic the validator reports at a token
ExpectedError(token, message) ==
    [range |-> [start |-> token.position,
                end |-> [line |-> token.position.line,
                         character |-> token.position.character + token.length]],
     source |-> "Catt LSP",
     severity |-> 1,
     message |-> message]

NewIndices == (Len(diagnostics) + 1)..Len(diagnostics')

\* The parenthesis depth after token i, counted from 1 after the "(" that
\* follows the keyword at k.
ParenDepth(k, i) ==
    1 + Cardinality({m \in (k + 2)..i : T(m).value = "("})
      - Cardinality({m \in (k + 2)..i : T(m).value = ")"})

DepthReturnsToZero(k) == \E i \in (k + 2)..(N - 1) : ParenDepth(k, i) = 0

UnclosedParenthesisMessage(kw) ==
    "Unclosed parenthesis in " \o kw
    \o (IF kw \in {"meow", "meowln"} THEN " call" ELSE " condition")

InitializerEnd(k) ==
    IF \E i \in (k + 3)..(N - 1) : T(i).value = ";"
    THEN CHOOSE i \in (k + 3)..(N - 1) :
            /\ T(i).value = ";"
            /\ \A m \in (k + 3)..(i - 1) : T(m).value # ";"
    ELSE N

UndefinedInInitialization(i) ==
    ExpectedError(T(i), "Undefined variable \"" \o T(i).value
                        \o "\" in initialization")

HasIfBlock == \E b \in 1..Len(blockStack) : blockStack[b].isIf

LastNew == diagnostics'[Len(diagnostics')]

\* C13: no out-of-range dereference. No iteration of validateSyntax reads a
\* property of a token index outside [0, tokens.length): every new diagnostic
\* is anchored at a token of the input, a lookahead (current + 1,
\* current + 2) past the end yields the diagnostic of the missing token
\* instead, and a look-behind (current - 1) used as an anchor is the last
\* token the cursor passed.
NoOutOfRangeDereference ==
    [][/\ pc' # "TypeError"
       /\ \A j \in NewIndices :
             \E i \in 0..(N - 1) :
                /\ diagnostics'[j].range.start = T(i).position
                /\ diagnostics'[j].range.end.character
                   = T(i).position.character + T(i).length
       /\ (AtLoopHead /\ IsKeyword(current, {"var"}) /\ current + 1 >= N)
             => diagnostics' = Append(diagnostics,
                   ExpectedError(T(current),
                                 "var keyword must be followed by an identifier"))
       /\ (AtLoopHead /\ IsKeyword(current, {"var"}) /\ current + 2 = N
            /\ T(current + 1).type = "IDENTIFIER")
             => diagnostics' = Append(diagnostics,
                   ExpectedError(T(current + 1),
                                 "var declaration requires initialization with '='"))
       /\ (AtLoopHead /\ VarHeaderAt(current) /\ InitializerEnd(current) = N)
             => /\ Len(diagnostics') > Len(diagnostics)
                /\ LastNew = ExpectedError(T(N - 1),
                                           "var declaration must end with semicolon")
       /\ (AtLoopHead /\ IsKeyword(current, ParenKeywords) /\ current + 1 >= N)
             => /\ Len(diagnostics') = Len(diagnostics) + 1
                /\ AnchoredAt(LastNew, current)
       /\ (AtLoopHead /\ IsKeyword(current, {"else"}) /\ HasIfBlock
            /\ current + 2 = N /\ T(current + 1).value = "if")
             => diagnostics' = Append(diagnostics,
                   ExpectedError(T(current + 1),
                      "Invalid else if statement. Expected \"(\" after \"if\""))
       /\ (AtLoopHead /\ IsKeyword(current, {"else"}) /\ HasIfBlock
            /\ current + 2 < N /\ T(current + 1).value = "if"
            /\ T(current + 2).value = "(" /\ ~DepthReturnsToZero(current + 1))
             => diagnostics' = Append(diagnostics,
                   ExpectedError(T(N - 1),
                                 "Unclosed parenthesis in else if condition"))]_vars

\* "var a =": the scan ends at the end of the input and the diagnostic is
\* anchored at the last token, "="
NoOutOfRangeDereferenceWitness ==
    /\ pc = "done"
    /\ tokens = Layout(FragVarHead)
    /\ current = N
    /\ diagnostics = <<ExpectedError(T(2), "var declaration must end with semicolon")>>

(***************************************************************************)
(* The shape of a diagnostic                                               *)
(***************************************************************************)
\* C14: diagnostic shape. Every diagnostic validateSyntax holds has severity
\* 1 (Error) and source "Catt LSP", its range starts at the position of some
\* token of the input and ends on the same line, at the start character plus
\* that token's length.
DiagnosticShape ==
    \A j \in 1..Len(diagnostics) :
       /\ diagnostics[j].severity = 1
       /\ diagnostics[j].source = "Catt LSP"
       /\ \E i \in 0..(N - 1) :
             /\ diagnostics[j].range.start = T(i).position
             /\ diagnostics[j].range.end.line = diagnostics[j].range.start.line
             /\ diagnostics[j].range.end.character
                = diagnostics[j].range.start.character + T(i).length

\* ". else": two diagnostics, the second spans the four characters of "else"
\* from character 2
DiagnosticShapeWitness ==
    /\ pc = "done"
    /\ tokens = Layout(<<UnkDot, KwElse>>)
    /\ Len(diagnostics) = 2
    /\ diagnostics[2].range = [start |-> [line |-> 0, character |-> 2],
                               end |-> [line |-> 0, character |-> 6]]

(***************************************************************************)
(* isIf tagging                                                            *)
(***************************************************************************)
\* C15: isIf tagging. Every block on the stack has isIf true exactly when
\* the keyword that opened it is "if" (blocks of while, for and else have
\* isIf false), so that an else whose only open block is a while yields
\* 'else statement without preceding if statement': the input
\* "while ( y ) { ; else {" ends with that diagnostic at the else token.
IsIfTagging ==
    /\ \A b \in 1..Len(blockStack) :
          blockStack[b].isIf <=> blockStack[b].startToken.value = "if"
    /\ (pc = "done" /\ tokens = Layout(FragWhileY \o FragSemiElse))
          => \E j \in 1..Len(diagnostics) :
                diagnostics[j]
                = ExpectedError(T(6), "else statement without preceding if statement")

(***************************************************************************)
(* The flat set of declared variables                                      *)
(***************************************************************************)
UndefinedVariableMessages(name) ==
    {"Undefined variable \"" \o name \o "\"",
     "Undefined variable \"" \o name \o "\" in initialization"}

\* C16: flat declared-variable set. Within a pass no step removes a name from
\* declaredVariables (closing a block included); a name enters only in the
\* iteration that dispatches a "var IDENT =" header, and it is that IDENT;
\* and no step adds an 'Undefined variable' diagnostic, of either kind, for a
\* name that was already in declaredVariables, in whatever block the
\* identifier is.
FlatDeclaredVariables ==
    [][/\ declaredVariables \subseteq declaredVariables'
       /\ declaredVariables' # declaredVariables
             => /\ AtLoopHead
                /\ VarHeaderAt(current)
                /\ declaredVariables' = declaredVariables \cup {T(current + 1).value}
       /\ \A j \in NewIndices :
             \A name \in declaredVariables :
                diagnostics'[j].message \notin UndefinedVariableMessages(name)]_vars

\* "var a = 1 ; if ( a ) { var a = a ;": both a of the block body are
\* dispatched as identifiers after a was declared outside the block, and
\* neither is reported
FlatDeclaredVariablesWitness ==
    /\ pc = "done"
    /\ tokens = Layout(Concat(<<FragVarA, FragIfA, FragVarSelf>>))
    /\ declaredVariables = {"a"}
    /\ Len(blockStack) = 1
    /\ \A j \in 1..Len(diagnostics) :
          diagnostics[j].message \notin UndefinedVariableMessages("a")

(***************************************************************************)
(* Position bookkeeping of the lexer                                       *)
(***************************************************************************)
\* the number of source characters a sequence of consumed pieces covers
RECURSIVE Consumed(_)
Consumed(ps) == IF ps = <<>> THEN 0 ELSE Len(Head(ps)) + Consumed(Tail(ps))

\* the consumed piece that is the k-th token
PieceOfToken(k) ==
    CHOOSE p \in 1..Len(pieces) :
       /\ pieces[p] \notin Whitespace
       /\ Cardinality({q \in 1..p : pieces[q] \notin Whitespace}) = k

\* the newlines skipped as whitespace before piece p
SkippedNewlines(p) == {q \in 1..(p - 1) : pieces[q] = "\n"}

\* the source offset right after the last newline skipped before piece p
LineStart(p) ==
    IF SkippedNewlines(p) = {} THEN 0
    ELSE LET last == CHOOSE q \in SkippedNewlines(p) :
                        \A r \in SkippedNewlines(p) : r <= q
         IN Consumed(SubSeq(pieces, 1, last))

\* C17: position bookkeeping. For every token tokenize has produced, length
\* is the number of source characters of its value (the value is the source
\* text at the token's offset), position.line is the number of newlines
\* skipped as whitespace before it, and position.character is the number of
\* source characters consumed since the last such newline, or since the start
\* of the input; the characters of a STRING token, newlines included, count
\* one column each and never change the line. The running line and character
\* counters obey the same rule.
PositionBookkeeping ==
    pc \in {"tokenize", "tokenized"} =>
      /\ \A k \in 1..Len(tokens) :
            LET p == PieceOfToken(k)
                offset == Consumed(SubSeq(pieces, 1, p - 1))
            IN /\ tokens[k].length = Len(tokens[k].value)
               /\ Slice(offset, offset + tokens[k].length) = tokens[k].value
               /\ tokens[k].position.line = Cardinality(SkippedNewlines(p))
               /\ tokens[k].position.character = offset - LineStart(p)
      /\ line = Cardinality(SkippedNewlines(Len(pieces) + 1))
      /\ character = current - LineStart(Len(pieces) + 1)

\* a newline, then a string literal with a newline inside: the string is on
\* line 1 at character 0, and after its three characters the counters stand
\* at line 1, character 3
PositionBookkeepingWitness ==
    /\ pc = "tokenized"
    /\ content = <<"\n", "\"", "\n", "\"">>
    /\ Len(tokens) = 1
    /\ tokens[1].type = "STRING"
    /\ tokens[1].position = [line |-> 1, character |-> 0]
    /\ tokens[1].length = 3
    /\ line = 1
    /\ character = 3

(***************************************************************************)
(* Unexpected characters                                                   *)
(***************************************************************************)
\* C18: unexpected characters. At the end of the pass every UNKNOWN token
\* outside the parentheses of a call or condition and outside a var
\* initializer has exactly one 'Unexpected character: <value>' diagnostic
\* anchored at it, the token right after a completed meow ( ... ) call and
\* the token right after the "{" that opens a block included.
UnexpectedCharacters ==
    pc = "done" =>
      \A i \in 0..(N - 1) :
         (T(i).type = "UNKNOWN" /\ ~InParens(i) /\ ~InInitializer(i))
         => Cardinality({j \in 1..Len(diagnostics) :
               diagnostics[j]
               = ExpectedError(T(i), "Unexpected character: " \o T(i).value)}) = 1

(***************************************************************************)
(* Brace counts                                                            *)
(***************************************************************************)
Top == blockStack[Len(blockStack)]

Below == SubSeq(blockStack, 1, Len(blockStack) - 1)

\* C19: brace counts. At the head of every iteration and at the end of the
\* pass every block on the stack has braceCount >= 1. A dispatched "}" with a
\* non-empty stack changes only the top block: it pops it exactly when its
\* count was 1 and otherwise lowers its count by one. A dispatched "{" with a
\* non-empty stack raises the top block's count by one and changes nothing
\* else. With an empty stack both leave the stack and the diagnostics as
\* they were.
BraceCounts ==
    [][/\ \A b \in 1..Len(blockStack') : blockStack'[b].braceCount >= 1
       /\ (AtLoopHead /\ T(current).value = "}")
             => IF blockStack = <<>>
                THEN blockStack' = <<>> /\ diagnostics' = diagnostics
                ELSE IF Top.braceCount = 1
                THEN blockStack' = Below
                ELSE /\ Len(blockStack') = Len(blockStack)
                     /\ SubSeq(blockStack', 1, Len(blockStack) - 1) = Below
                     /\ blockStack'[Len(blockStack)]
                        = [Top EXCEPT !.braceCount = Top.braceCount - 1]
       /\ (AtLoopHead /\ T(current).value = "{")
             => IF blockStack = <<>>
                THEN blockStack' = <<>> /\ diagnostics' = diagnostics
                ELSE /\ Len(blockStack') = Len(blockStack)
                     /\ SubSeq(blockStack', 1, Len(blockStack) - 1) = Below
                     /\ blockStack'[Len(blockStack)]
                        = [Top EXCEPT !.braceCount = Top.braceCount + 1]]_vars

\* "if ( a ) { ; { }": the inner "{" raised the block's count to 2 and the
\* "}" lowered it to 1 without popping the block
BraceCountsWitness ==
    /\ pc = "done"
    /\ tokens = Layout(Concat(<<FragIfA, FragSemiOpen, <<OpRBrace>>>>))
    /\ Len(blockStack) = 1
    /\ blockStack[1].braceCount = 1
    /\ blockStack[1].startIndex = 4

(***************************************************************************)
(* The stdin "data" handler of the server                                  *)
(***************************************************************************)
HeaderName == <<"C", "o", "n", "t", "e", "n", "t", "-",
                "L", "e", "n", "g", "t", "h", ":", " ">>

HeaderTerminator == <<"\r", "\n", "\r", "\n">>

DecimalDigits == <<"0", "1", "2", "3", "4", "5", "6", "7", "8", "9">>

IsDigit(ch) == \E d \in 1..10 : DecimalDigits[d] = ch

DigitValue(ch) == (CHOOSE d \in 1..10 : DecimalDigits[d] = ch) - 1

\* the decimal numeral of n, as the client writes it in the header
RECURSIVE Decimal(_)
Decimal(n) ==
    IF n < 10 THEN <<DecimalDigits[n + 1]>>
    ELSE Decimal(n \div 10) \o <<DecimalDigits[(n % 10) + 1]>>

\* parseInt(digits, 10)
RECURSIVE parseInt(_)
parseInt(ds) ==
    IF ds = <<>> THEN 0
    ELSE parseInt(SubSeq(ds, 1, Len(ds) - 1)) * 10 + DigitValue(ds[Len(ds)])

\* buf.indexOf(pattern): the first offset where pattern occurs, -1 if none
indexOf(buf, pattern) ==
    LET at == {i \in 0..(Len(buf) - Len(pattern)) :
                  SubSeq(buf, i + 1, i + Len(pattern)) = pattern}
    IN IF at = {} THEN -1
       ELSE CHOOSE i \in at : \A j \in at : i <= j

Min(a, b) == IF a <= b THEN a ELSE b

\* buf.slice(from, to), both offsets in range or clamped to the length
slice(buf, from, to) == SubSeq(buf, Min(from, Len(buf)) + 1, Min(to, Len(buf)))

\* \d+ from offset c: the offset after the last digit of the run
RECURSIVE DigitsEnd(_, _)
DigitsEnd(buf, c) ==
    IF c < Len(buf) /\ IsDigit(buf[c + 1]) THEN DigitsEnd(buf, c + 1) ELSE c

\* /Content-Length: (\d+)\r\n/ matches at offset i
MatchesAt(buf, i) ==
    /\ i + Len(HeaderName) <= Len(buf)
    /\ SubSeq(buf, i + 1, i + Len(HeaderName)) = HeaderName
    /\ LET e == DigitsEnd(buf, i + Len(HeaderName))
       IN /\ e > i + Len(HeaderName)
          /\ e + 2 <= Len(buf)
          /\ buf[e + 1] = "\r"
          /\ buf[e + 2] = "\n"

\* buffer.match(/Content-Length: (\d+)\r\n/): null, or the first match and
\* its group 1
lengthMatch(buf) ==
    LET at == {i \in 0..Len(buf) : MatchesAt(buf, i)}
    IN IF at = {} THEN [found |-> FALSE, digits |-> <<>>]
       ELSE LET i == CHOOSE i \in at : \A j \in at : i <= j
            IN [found |-> TRUE,
                digits |-> SubSeq(buf, i + Len(HeaderName) + 1,
                                  DigitsEnd(buf, i + Len(HeaderName)))]

\* JSON.parse(raw) returns, it does not throw. The streams of the model hold
\* no quote, bracket, comma or point and none of the letters of true, false
\* or null, so a JSON text over their characters is an object with no member
\* or a number without fraction, with whitespace around it.
JSONWhitespace == {" ", "\r", "\n"}

RECURSIVE TrimStart(_)
TrimStart(raw) ==
    IF raw # <<>> /\ Head(raw) \in JSONWhitespace THEN TrimStart(Tail(raw)) ELSE raw

RECURSIVE TrimEnd(_)
TrimEnd(raw) ==
    IF raw # <<>> /\ raw[Len(raw)] \in JSONWhitespace
    THEN TrimEnd(SubSeq(raw, 1, Len(raw) - 1))
    ELSE raw

IsEmptyObject(t) ==
    /\ Len(t) >= 2
    /\ t[1] = "{"
    /\ t[Len(t)] = "}"
    /\ \A i \in 2..(Len(t) - 1) : t[i] \in JSONWhitespace

AllDigits(t) == t # <<>> /\ \A i \in 1..Len(t) : IsDigit(t[i])

Unsigned(t) == IF t # <<>> /\ t[1] = "-" THEN Tail(t) ELSE t

IsNumber(t) ==
    LET u == Unsigned(t)
        e == indexOf(u, <<"e">>)
        int == IF e = -1 THEN u ELSE SubSeq(u, 1, e)
    IN /\ AllDigits(int)
       /\ Len(int) > 1 => int[1] # "0"
       /\ e # -1 => AllDigits(Unsigned(SubSeq(u, e + 2, Len(u))))

IsJSON(raw) ==
    LET t == TrimEnd(TrimStart(raw)) IN IsEmptyObject(t) \/ IsNumber(t)

\* while (true) { ... }: the framing loop, run on the buffer until it breaks
\* or JSON.parse throws; hs is the history of the messages dispatched
RECURSIVE Drain(_, _)
Drain(buf, hs) ==
    LET m == lengthMatch(buf)
    IN IF ~m.found
       THEN [buffer |-> buf, handled |-> hs, thrown |-> FALSE]
       ELSE LET contentLength == parseInt(m.digits)
                messageStart == indexOf(buf, HeaderTerminator) + 4
            IN IF Len(buf) < messageStart + contentLength
               THEN [buffer |-> buf, handled |-> hs, thrown |-> FALSE]
               ELSE LET rawMessage ==
                           slice(buf, messageStart, messageStart + contentLength)
                    IN IF ~IsJSON(rawMessage)
                       THEN [buffer |-> buf, handled |-> hs, thrown |-> TRUE]
                       ELSE Drain(slice(buf, messageStart + contentLength, Len(buf)),
                                  Append(hs, rawMessage))

\* A message body: a JSON object with no member, padded to a length. The
\* lengths have one and two digits, and lie on both sides of the length of a
\* header.
Body(padding) == <<"{">> \o [i \in 1..padding |-> " "] \o <<"}">>

Bodies == {Body(0), Body(1), Body(19)}

\* Content-Length: N\r\n\r\n<N-character body>
Frame(body) ==
    HeaderName \o Decimal(Len(body)) \o HeaderTerminator \o body

RECURSIVE Frames(_)
Frames(bodies) ==
    IF bodies = <<>> THEN <<>> ELSE Frame(Head(bodies)) \o Frames(Tail(bodies))

\* let buffer = ""; process.stdin.on("data", ...): the server listens, and a
\* client has a stream of well-formed messages to write
Listen ==
    /\ pc = "idle"
    /\ \E n \in 1..MaxMessages : \E bodies \in [1..n -> Bodies] :
          /\ messages' = bodies
          /\ stream' = Frames(bodies)
    /\ delivered' = 0
    /\ buffer' = <<>>
    /\ handled' = <<>>
    /\ pc' = "listening"
    /\ UNCHANGED <<lexvars, iterations, tokens, current, valvars>>

\* (chunk) => { buffer += chunk; while (true) { ... } }: the next k characters
\* of the stream arrive as one chunk
Data ==
    /\ pc = "listening"
    /\ delivered < Len(stream)
    /\ \E k \in 1..(Len(stream) - delivered) :
          LET chunk == SubSeq(stream, delivered + 1, delivered + k)
              loop == Drain(buffer \o chunk, handled)
          IN /\ delivered' = delivered + k
             /\ buffer' = loop.buffer
             /\ handled' = loop.handled
             /\ pc' = IF loop.thrown THEN "SyntaxError" ELSE pc
    /\ UNCHANGED <<stream, messages>>
    /\ UNCHANGED <<lexvars, iterations, tokens, current, valvars>>

FrameInit == Idle

FrameNext ==
    \/ Listen
    \/ Data

FrameSpec == FrameInit /\ [][FrameNext]_vars

\* C20: framing independent of chunking. However the stream is split into
\* chunks, the server never slices a body before the header terminator has
\* arrived (JSON.parse never sees anything but a body), the messages
\* dispatched so far are the first messages of the stream, in order and each
\* with exactly its own body, and once the whole stream has arrived every
\* message has been dispatched exactly once.
FramingIndependentOfChunking ==
    /\ pc # "SyntaxError"
    /\ Len(handled) <= Len(messages)
    /\ \A i \in 1..Len(handled) : handled[i] = messages[i]
    /\ (pc = "listening" /\ delivered = Len(stream)) => handled = messages

====
